---- MODULE Spec2Model ----
(***************************************************************************)
(* A model of the software renderer of src/src/main.rs: the Drawer (pixel  *)
(* buffer + z-buffer, clear / pixel / line / triangle / finish) and the    *)
(* RedrawRequested handler of main that drives it once per frame.          *)
(*                                                                         *)
(* Numbers.  f32 screen coordinates are kept in fixed point, in units of   *)
(* 1/Half pixel (Half = 2), which holds every coordinate the modelled      *)
(* inputs produce exactly (integer pixels, and the half pixels produced    *)
(* by projecting onto a window of odd size).  Quotients (the interpolation *)
(* parameter of line, the barycentric weights, the interpolated depth) are *)
(* kept as exact fractions.  u32 pixel arithmetic keeps its width: the     *)
(* subtraction of pixel() either panics (overflow checks on) or wraps      *)
(* modulo 2^32 (overflow checks off).                                      *)
(***************************************************************************)
EXTENDS Integers, Sequences, FiniteSets, TLC

VARIABLES
    overflow_checks, \* build profile: TRUE = arithmetic overflow panics, FALSE = it wraps
    scene,           \* the loaded meshes (main.rs:18), read-only after Init
    pc,              \* position of the program / of the RedrawRequested handler
    screen_size,     \* Drawer.screen_size, [x |-> width, y |-> height]
    buffer,          \* Drawer.buffer: packed colours, index 0 .. width*height-1
    zbuffer,         \* Drawer.zbuffer: depths, same indexing
    mesh_i,          \* handler position: index of the mesh being drawn
    face_i,          \* handler position: index of the next face of that mesh
    redraw,          \* a RedrawRequested event is queued (window.request_redraw)
    shown,           \* what the presenter was last handed, or NoFrame
    frames,          \* number of redraw passes started
    trace,           \* history: the steps of the current pass, in order: "new", "clear",
                     \* "line", "triangle" or "culled" (a face not drawn), "present"
    ops,             \* history: the Drawer calls made through the API, with arguments
    pre              \* history: pre[k] is the buffer and zbuffer just before ops[k]

vars == << overflow_checks, scene, pc, screen_size, buffer, zbuffer, mesh_i,
           face_i, redraw, shown, frames, trace, ops, pre >>

(***************************************************************************)
(* Bounds of the model.                                                    *)
(***************************************************************************)
MaxDim    == 2   \* largest window width and height explored
MaxOps    == 2   \* clear / pixel / triangle calls per Drawer in the API specifications
MaxFrames == 2   \* redraw passes per run of main

(***************************************************************************)
(* Arithmetic helpers.                                                     *)
(***************************************************************************)
Half == 2        \* fixed-point scale of f32 coordinates: units per pixel

Abs(v) == IF v < 0 THEN -v ELSE v
Min(a, b) == IF a < b THEN a ELSE b
Max(a, b) == IF a > b THEN a ELSE b

RECURSIVE Gcd(_, _)
Gcd(a, b) == IF b = 0 THEN a ELSE Gcd(b, a % b)

\* An exact fraction n/d in lowest terms with d > 0.
Frac(n, d) ==
    LET s == IF d < 0 THEN -1 ELSE 1
        g == Gcd(Abs(n), Abs(d))
    IN  [n |-> (s * n) \div g, d |-> (s * d) \div g]

\* f32::NEG_INFINITY (main.rs:132), as the fraction -1/0.
NEG_INFINITY == [n |-> -1, d |-> 0]

\* f32 `a < b` on depths (main.rs:269); -inf is below every finite depth.
Less(a, b) == a.n * b.d < b.n * a.d

\* f32 -> u32 / usize cast of a quotient n/d, d > 0 (`as usize`, as_uvec2):
\* truncation toward zero, negative values saturate to 0.
AsUint(n, d) == IF n < 0 THEN 0 ELSE n \div d

\* f32::round of the fixed-point value v (v/Half pixels): nearest integer,
\* halves away from zero (main.rs:189).
Round(v) ==
    IF v >= 0 THEN (2 * v + Half) \div (2 * Half)
    ELSE -((2 * (-v) + Half) \div (2 * Half))

(***************************************************************************)
(* Colours.                                                                *)
(***************************************************************************)
Srgb(r, g, b) == [red |-> r, green |-> g, blue |-> b]

\* main.rs:163: blue | green << 8 | red << 16
Pack(color) == color.blue + color.green * 256 + color.red * 65536

White == Srgb(255, 255, 255)
Red   == Srgb(255, 0, 0)
Colors == {White, Red}

(***************************************************************************)
(* The Drawer (main.rs:122-278).  A Drawer value is the record             *)
(*   [buffer, zbuffer, screen_size, panicked]                              *)
(* where panicked records that a call panicked (the process is unwinding). *)
(***************************************************************************)
Cells(w, h) == 0 .. (w * h - 1)

\* vec![f32::NEG_INFINITY; width * height] with NEG_INFINITY replaced by 0.0.
new_zeroed(buf, width, height) ==
    [buffer |-> buf,
     zbuffer |-> [i \in Cells(width, height) |-> Frac(0, 1)],
     screen_size |-> [x |-> width, y |-> height],
     panicked |-> FALSE]

\* Drawer::new (main.rs:129-135)
new(buf, width, height) ==
    [buffer |-> buf,
     zbuffer |-> [i \in Cells(width, height) |-> NEG_INFINITY],
     screen_size |-> [x |-> width, y |-> height],
     panicked |-> FALSE]

\* clear with the loop bound one short: the last pixel is not reset.
clear_short(self) ==
    [self EXCEPT !.buffer =
        [i \in DOMAIN self.buffer |->
            IF i < self.screen_size.x * self.screen_size.y - 1 THEN 0
            ELSE self.buffer[i]]]

\* Drawer::clear (main.rs:145-149)
clear(self) ==
    [self EXCEPT !.buffer =
        [i \in DOMAIN self.buffer |->
            IF i < self.screen_size.x * self.screen_size.y THEN 0
            ELSE self.buffer[i]]]

\* Drawer::pixel (main.rs:151-165).  pos is a UVec2 (x, y >= 0).
\* `screen_size.y - pos.y` is a u32 subtraction: with pos.y > height it
\* panics when overflow checks are on and wraps to 2^32 - (pos.y - height)
\* when they are off.  raw is the index before reduction modulo 2^32; a
\* negative raw wraps to raw + 2^32, which is above width*height for every
\* surface modelled here, so the wrapped index is in range iff 0 <= raw <
\* width*height.
pixel(self, pos, color, checks) ==
    LET w   == self.screen_size.x
        h   == self.screen_size.y
        raw == (h - pos.y) * w + pos.x
    IN  IF self.panicked THEN self
        ELSE IF pos.y > h /\ checks THEN [self EXCEPT !.panicked = TRUE]
        ELSE IF raw >= 0 /\ raw < w * h
             THEN [self EXCEPT !.buffer[raw] = Pack(color)]
             ELSE self

\* The point drawn for column x of a line (main.rs:190-198): t = (x - p1.x) /
\* (p2.x - p1.x), pos = p1 + (p2 - p1) * t, transposed back when steep, then
\* as_uvec2.  p1, p2 are in fixed point, x in pixels.
LinePoint(p1, p2, steep, x) ==
    LET tn == x * Half - p1.x
        td == p2.x - p1.x
        px == AsUint(p1.x * td + (p2.x - p1.x) * tn, td * Half)
        py == AsUint(p1.y * td + (p2.y - p1.y) * tn, td * Half)
    IN  IF steep THEN [x |-> py, y |-> px] ELSE [x |-> px, y |-> py]

\* The for loop of line (main.rs:189-199) from column x up to hi, exclusive.
RECURSIVE LineLoop(_, _, _, _, _, _, _, _)
LineLoop(self, p1, p2, steep, color, checks, x, hi) ==
    IF x >= hi \/ self.panicked THEN self
    ELSE LineLoop(pixel(self, LinePoint(p1, p2, steep, x), color, checks),
                  p1, p2, steep, color, checks, x + 1, hi)

Transpose(p) == [x |-> p.y, y |-> p.x]

\* line without the left-to-right reordering of the endpoints.
line_unordered(self, pos_1, pos_2, color, checks) ==
    LET steep == Abs(pos_1.x - pos_2.x) < Abs(pos_1.y - pos_2.y)
        a1 == IF steep THEN Transpose(pos_1) ELSE pos_1
        a2 == IF steep THEN Transpose(pos_2) ELSE pos_2
    IN  LineLoop(self, a1, a2, steep, color, checks,
                 AsUint(Round(a1.x), 1), AsUint(Round(a2.x), 1))

\* Drawer::line (main.rs:167-200).  pos_1, pos_2 are in fixed point.
line(self, pos_1, pos_2, color, checks) ==
    LET steep == Abs(pos_1.x - pos_2.x) < Abs(pos_1.y - pos_2.y)
        a1 == IF steep THEN Transpose(pos_1) ELSE pos_1
        a2 == IF steep THEN Transpose(pos_2) ELSE pos_2
        p1 == IF a1.x > a2.x THEN a2 ELSE a1
        p2 == IF a1.x > a2.x THEN a1 ELSE a2
    IN  LineLoop(self, p1, p2, steep, color, checks,
                 AsUint(Round(p1.x), 1), AsUint(Round(p2.x), 1))

\* Drawer::barycentric (main.rs:218-237) of the pixel (x, y) against pts,
\* whose x, y are in fixed point.  The weights are returned over their common
\* denominator: w[i] / d with d > 0.  u is Half*Half times the u of the code,
\* so `u.z.abs() > 1e-2` reads Abs(uz) * 100 > Half * Half.
barycentric(pts, x, y) ==
    LET s0 == << pts[3].x - pts[1].x, pts[2].x - pts[1].x, pts[1].x - x * Half >>
        s1 == << pts[3].y - pts[1].y, pts[2].y - pts[1].y, pts[1].y - y * Half >>
        ux == s0[2] * s1[3] - s0[3] * s1[2]
        uy == s0[3] * s1[1] - s0[1] * s1[3]
        uz == s0[1] * s1[2] - s0[2] * s1[1]
        sg == IF uz < 0 THEN -1 ELSE 1
    IN  IF Abs(uz) * 100 > Half * Half
        THEN [w |-> << sg * (uz - (ux + uy)), sg * uy, sg * ux >>, d |-> sg * uz]
        ELSE [w |-> << -1, -1, -1 >>, d |-> 1]

\* main.rs:263
Inside(bc) == bc.w[1] >= 0 /\ bc.w[2] >= 0 /\ bc.w[3] >= 0

\* main.rs:264-266: p.z = sum of pts[i].z * bc_screen[i]
Depth(pts, bc) ==
    Frac(pts[1].z * bc.w[1] + pts[2].z * bc.w[2] + pts[3].z * bc.w[3], bc.d)

\* main.rs:245-256: the bounding box folded over the three points, clamped
\* to the screen, then as_uvec2.  Result in pixels.
RECURSIVE BoxFold(_, _, _, _)
BoxFold(pts, i, box, clamp) ==
    IF i > 3 THEN box
    ELSE BoxFold(pts, i + 1,
            [minx |-> Max(0, Min(box.minx, pts[i].x)),
             miny |-> Max(0, Min(box.miny, pts[i].y)),
             maxx |-> Min(clamp.x, Max(box.maxx, pts[i].x)),
             maxy |-> Min(clamp.y, Max(box.maxy, pts[i].y))],
            clamp)

BoundingBox(self, pts) ==
    LET clamp == [x |-> self.screen_size.x * Half, y |-> self.screen_size.y * Half]
        box == BoxFold(pts, 1,
                   [minx |-> clamp.x, miny |-> clamp.y, maxx |-> 0, maxy |-> 0],
                   clamp)
    IN  [minx |-> AsUint(box.minx, Half), miny |-> AsUint(box.miny, Half),
         maxx |-> AsUint(box.maxx, Half), maxy |-> AsUint(box.maxy, Half)]

\* The depth test with `<=` in place of `<`.
DepthTest_le(stored, z) == Less(stored, z) \/ stored = z

\* main.rs:269: zbuffer[..] < p.z
DepthTest(stored, z) == Less(stored, z)

\* The body of the loops of triangle for the pixel (x, y) (main.rs:260-274).
\* Indexing zbuffer out of range panics (a Vec index).
TrianglePixel(self, pts, color, checks, x, y) ==
    LET bc  == barycentric(pts, x, y)
        z   == Depth(pts, bc)
        idx == x + y * self.screen_size.x
    IN  IF ~Inside(bc) THEN self
        ELSE IF idx \notin DOMAIN self.zbuffer THEN [self EXCEPT !.panicked = TRUE]
        ELSE IF DepthTest(self.zbuffer[idx], z)
             THEN pixel([self EXCEPT !.zbuffer[idx] = z],
                        [x |-> x, y |-> y], color, checks)
             ELSE self

\* The range of the outer loop with both ends included.
Columns_incl(box) == box.minx .. box.maxx

\* main.rs:258-259: bboxmin.x..bboxmax.x and bboxmin.y..bboxmax.y
Columns(box) == box.minx .. (box.maxx - 1)
Rows(box) == box.miny .. (box.maxy - 1)

\* The inner loop of triangle (main.rs:259-275) for column x, from row y on.
RECURSIVE RowLoop(_, _, _, _, _, _, _)
RowLoop(self, pts, color, checks, box, x, y) ==
    IF self.panicked \/ y \notin Rows(box) THEN self
    ELSE RowLoop(TrianglePixel(self, pts, color, checks, x, y),
                 pts, color, checks, box, x, y + 1)

\* The outer loop of triangle (main.rs:258-276), from column x on.
RECURSIVE TriangleLoop(_, _, _, _, _, _)
TriangleLoop(self, pts, color, checks, box, x) ==
    IF self.panicked \/ x \notin Columns(box) THEN self
    ELSE TriangleLoop(RowLoop(self, pts, color, checks, box, x, box.miny),
                      pts, color, checks, box, x + 1)

\* Drawer::triangle (main.rs:239-277).  pts[i] = [x, y, z], x and y in fixed
\* point, z a depth.
triangle(self, pts, color, checks) ==
    LET box == BoundingBox(self, pts)
    IN  TriangleLoop(self, pts, color, checks, box, box.minx)

\* Drawer::finish (main.rs:137-139): the buffer handed to present().
finish(self) ==
    [size |-> self.screen_size, pixels |-> self.buffer]

(***************************************************************************)
(* State shared by the specifications.                                     *)
(***************************************************************************)
NoFrame == [size |-> [x |-> 0, y |-> 0], pixels |-> << >>]

\* The Drawer held in the variables.
Self ==
    [buffer |-> buffer, zbuffer |-> zbuffer, screen_size |-> screen_size,
     panicked |-> pc = "panicked"]

\* Put the Drawer d back into the variables and go on at next; a panic ends
\* the program.
Store(d, next) ==
    \E after \in {d} :
        /\ buffer' = after.buffer
        /\ zbuffer' = after.zbuffer
        /\ screen_size' = after.screen_size
        /\ pc' = IF after.panicked THEN "panicked" ELSE next

Snapshot == [buffer |-> buffer, zbuffer |-> zbuffer]

\* What surface.buffer_mut() may hand out (main.rs:76): the contents are
\* whatever the back buffer held, here all zero or all one stale colour.
BufferChoices(w, h) ==
    { [i \in Cells(w, h) |-> v] : v \in {0, Pack(Red)} }

(***************************************************************************)
(* Specifications of the Drawer API: a Drawer is constructed over a        *)
(* surface and up to MaxOps calls are made on it, with arguments drawn     *)
(* from bounded sets.                                                      *)
(***************************************************************************)
Sizes == (1 .. MaxDim) \X (1 .. MaxDim)

InitApi(sizes, cleared) ==
    /\ overflow_checks \in BOOLEAN
    /\ scene = << >>
    /\ pc = "api"
    /\ \E sz \in sizes : \E buf \in BufferChoices(sz[1], sz[2]) :
         LET d == IF cleared THEN clear(new(buf, sz[1], sz[2]))
                  ELSE new(buf, sz[1], sz[2])
         IN  /\ screen_size = d.screen_size
             /\ buffer = d.buffer
             /\ zbuffer = d.zbuffer
    /\ mesh_i = 0
    /\ face_i = 0
    /\ redraw = FALSE
    /\ shown = NoFrame
    /\ frames = 0
    /\ trace = << >>
    /\ ops = << >>
    /\ pre = << >>

ApiReady == pc = "api" /\ Len(ops) < MaxOps

ApiCall(call, d) ==
    /\ Store(d, "api")
    /\ ops' = Append(ops, call)
    /\ pre' = Append(pre, Snapshot)
    /\ UNCHANGED << overflow_checks, scene, mesh_i, face_i, redraw, shown,
                    frames, trace >>

ApiClear == ApiReady /\ ApiCall([op |-> "clear"], clear(Self))

\* pixel positions: the surface and one column / row beyond it on each side
PixelCoords == 0 .. (MaxDim + 1)

ApiPixel ==
    /\ ApiReady
    /\ \E x \in PixelCoords, y \in PixelCoords, c \in Colors :
        ApiCall([op |-> "pixel", pos |-> [x |-> x, y |-> y], color |-> c],
                pixel(Self, [x |-> x, y |-> y], c, overflow_checks))

InitSurface == InitApi(Sizes, FALSE)
NextSurface == ApiClear \/ ApiPixel
SpecSurface == InitSurface /\ [][NextSurface]_vars

\* A point of the pixel grid, in fixed point.
Pt(x, y) == [x |-> x * Half, y |-> y * Half]

\* line endpoints: the pixels of the surface and one column / row around it
LineCoords == -1 .. (MaxDim + 1)

\* the surface and the end point of the line from (0,0) to (10,0)
WideSize == << 11, 2 >>
WideEnd == << 10, 0 >>
LineEnds == (LineCoords \X LineCoords) \cup {WideEnd}

\* line is called once on the surface Init built
ApiLine ==
    /\ pc = "api" /\ ops = << >>
    /\ \E a \in LineEnds, b \in LineEnds, c \in Colors :
        ApiCall([op |-> "line", pos_1 |-> Pt(a[1], a[2]), pos_2 |-> Pt(b[1], b[2]),
                 color |-> c],
                line(Self, Pt(a[1], a[2]), Pt(b[1], b[2]), c, overflow_checks))

InitLine == InitApi(Sizes \cup {WideSize}, TRUE) \/ InitApi(Sizes, FALSE)
NextLine == ApiLine
SpecLine == InitLine /\ [][NextLine]_vars

\* triangle vertices: the corners of the pixels of the surface
TriCoords == 0 .. MaxDim
TriPoints == TriCoords \X TriCoords
\* depths of the three vertices: two flat triangles and a sloped one
DepthProfiles == { << 0, 0, 0 >>, << 1, 1, 1 >>, << 0, 1, 1 >> }

Before2(a, b) == a[1] < b[1] \/ (a[1] = b[1] /\ a[2] < b[2])

Vertex(p, z) == [x |-> p[1] * Half, y |-> p[2] * Half, z |-> z]

ApiTriangle ==
    /\ ApiReady
    /\ \E a \in TriPoints, b \in TriPoints, c \in TriPoints,
       zs \in DepthProfiles, col \in Colors :
        /\ Before2(a, b) /\ Before2(b, c)
        /\ LET pts == << Vertex(a, zs[1]), Vertex(b, zs[2]), Vertex(c, zs[3]) >>
           IN  ApiCall([op |-> "triangle", pts |-> pts, color |-> col],
                       triangle(Self, pts, col, overflow_checks))

InitTriangle == InitApi({ << MaxDim, MaxDim >>, << MaxDim, 1 >> }, TRUE)
NextTriangle == ApiTriangle
SpecTriangle == InitTriangle /\ [][NextTriangle]_vars

Last == ops[Len(ops)]

Before == pre[Len(pre)]
Called(name) == ops # << >> /\ Last.op = name
Panicked == pc = "panicked"
Width == screen_size.x
Height == screen_size.y

\* C1: a pixel call with coordinates outside [0,width) x [0,height) leaves
\* the buffer unchanged and does not fail.
CE_C1 ==
    (Called("pixel") /\ (Last.pos.x >= Width \/ Last.pos.y >= Height))
        => (~Panicked /\ buffer = Before.buffer)

\* C4: after clear every one of the width*height pixels is 0 whatever the
\* buffer held, and a second clear right after the first leaves the buffer
\* as the first left it.
Thm_C4 ==
    Called("clear") =>
        /\ DOMAIN buffer = Cells(Width, Height)
        /\ \A i \in Cells(Width, Height) : buffer[i] = 0
        /\ (Len(ops) >= 2 /\ ops[Len(ops) - 1].op = "clear")
               => buffer = Before.buffer

\* C4 witness: clear, clear on a buffer that held a stale colour.
Wit_C4 ==
    /\ Len(ops) = 2
    /\ ops[1].op = "clear" /\ ops[2].op = "clear"
    /\ \E i \in Cells(Width, Height) : pre[1].buffer[i] # 0
    /\ \A i \in Cells(Width, Height) : buffer[i] = 0

\* The Drawer as it was before the last call.
BeforeSelf ==
    [buffer |-> Before.buffer, zbuffer |-> Before.zbuffer,
     screen_size |-> screen_size, panicked |-> FALSE]

AllZero(buf) == \A i \in DOMAIN buf : buf[i] = 0

\* C3: on a cleared surface with width > 10 and height > 0, the line from
\* (0,0) to (10,0) colours exactly ten pixels, x in [0,10) of one row (the
\* row y = 0 is flipped to), with the colour of the line, and no other pixel.
CE_C3 ==
    (/\ Called("line")
     /\ Last.pos_1 = Pt(0, 0) /\ Last.pos_2 = Pt(10, 0)
     /\ Width > 10 /\ Height > 0
     /\ AllZero(Before.buffer))
        => /\ ~Panicked
           /\ \E row \in 0 .. (Height - 1) :
                \A i \in DOMAIN buffer :
                    buffer[i] = IF i \in { row * Width + x : x \in 0 .. 9 }
                                THEN Pack(Last.color) ELSE 0

\* C10: line(a, b, c) and line(b, a, c) on the same surface write the same
\* pixels; when the endpoints have equal x after transposition, neither
\* direction writes a pixel.
Thm_C10 ==
    Called("line") =>
        LET a == Last.pos_1
            b == Last.pos_2
            back == line(BeforeSelf, b, a, Last.color, overflow_checks)
            steep == Abs(a.x - b.x) < Abs(a.y - b.y)
            ax == IF steep THEN a.y ELSE a.x
            bx == IF steep THEN b.y ELSE b.x
        IN  /\ back.buffer = buffer
            /\ back.panicked = Panicked
            /\ ax = bx => (buffer = Before.buffer /\ ~Panicked)

\* C10 witness: a line whose endpoints had to be swapped (after the
\* transposition pos_1 is right of pos_2) and that wrote pixels.
Wit_C10 ==
    /\ Called("line")
    /\ LET steep == Abs(Last.pos_1.x - Last.pos_2.x) < Abs(Last.pos_1.y - Last.pos_2.y)
       IN  IF steep THEN Last.pos_1.y > Last.pos_2.y
           ELSE Last.pos_1.x > Last.pos_2.x
    /\ ~Panicked
    /\ buffer # Before.buffer

(***************************************************************************)
(* Triangles.                                                              *)
(***************************************************************************)
Pixels == (0 .. (Width - 1)) \X (0 .. (Height - 1))

\* main.rs:269: the z-buffer cell of the pixel (x, y)
ZIndex(x, y) == x + y * Width

\* main.rs:158-162: the buffer cell pixel((x, y)) addresses
PixelCell(x, y) == (Height - y) * Width + x

\* The box of the claim: bboxmin = max(0, min over the points), bboxmax =
\* min(surface size, max over the points), as integer pixels.
ClaimBox(pts) ==
    LET xs == { pts[i].x : i \in 1 .. 3 }
        ys == { pts[i].y : i \in 1 .. 3 }
        lo(S) == CHOOSE v \in S : \A u \in S : v <= u
        hi(S) == CHOOSE v \in S : \A u \in S : v >= u
    IN  [minx |-> Max(0, lo(xs)) \div Half, miny |-> Max(0, lo(ys)) \div Half,
         maxx |-> Min(Width * Half, hi(xs)) \div Half,
         maxy |-> Min(Height * Half, hi(ys)) \div Half]

InsideAt(pts, x, y) == Inside(barycentric(pts, x, y))
DepthAt(pts, x, y) == Depth(pts, barycentric(pts, x, y))

\* C7: the inside test is made for every pixel of the box, both ends
\* included, so an inside pixel on the maximum column or row of the box is
\* drawn (it passes the depth test and its depth is stored).
CE_C7 ==
    (Called("triangle") /\ ~Panicked) =>
        LET box == ClaimBox(Last.pts)
        IN  \A p \in Pixels :
              (/\ p[1] \in box.minx .. box.maxx
               /\ p[2] \in box.miny .. box.maxy
               /\ InsideAt(Last.pts, p[1], p[2])
               /\ Less(Before.zbuffer[ZIndex(p[1], p[2])],
                       DepthAt(Last.pts, p[1], p[2])))
                  => zbuffer[ZIndex(p[1], p[2])] = DepthAt(Last.pts, p[1], p[2])

\* C7 amended: the inside test is made for exactly the pixels with
\* bboxmin.x <= x < bboxmax.x and bboxmin.y <= y < bboxmax.y; a pixel on the
\* maximum column or row of the box is not tested and not drawn.
Thm_C7 ==
    (Called("triangle") /\ ~Panicked) =>
        LET box == ClaimBox(Last.pts)
        IN  \A p \in Pixels :
              LET idx == ZIndex(p[1], p[2])
                  z == DepthAt(Last.pts, p[1], p[2])
                  drawn == /\ p[1] \in box.minx .. (box.maxx - 1)
                           /\ p[2] \in box.miny .. (box.maxy - 1)
                           /\ InsideAt(Last.pts, p[1], p[2])
                           /\ Less(Before.zbuffer[idx], z)
              IN  zbuffer[idx] = IF drawn THEN z ELSE Before.zbuffer[idx]

\* C7 witness: a first triangle with an inside pixel on the maximum column
\* of its box that was left untouched, while another pixel was drawn.
Wit_C7 ==
    /\ Len(ops) = 1 /\ Called("triangle")
    /\ LET box == ClaimBox(Last.pts)
       IN  /\ \E p \in Pixels :
                /\ p[1] = box.maxx /\ p[2] \in box.miny .. (box.maxy - 1)
                /\ InsideAt(Last.pts, p[1], p[2])
                /\ zbuffer[ZIndex(p[1], p[2])] = NEG_INFINITY
           /\ \E p \in Pixels : zbuffer[ZIndex(p[1], p[2])] # NEG_INFINITY

\* C8: a triangle never raises the depth of a cell without its colour being
\* written to the pixel of that cell (and never writes the one without the
\* other).
CE_C8 ==
    Called("triangle") =>
        \A p \in Pixels :
            zbuffer[ZIndex(p[1], p[2])] # Before.zbuffer[ZIndex(p[1], p[2])]
                => /\ PixelCell(p[1], p[2]) \in DOMAIN buffer
                   /\ buffer[PixelCell(p[1], p[2])] = Pack(Last.color)

\* The pixels a triangle call tests and finds inside.
Covers(pts, x, y) ==
    LET box == ClaimBox(pts)
    IN  /\ x \in box.minx .. (box.maxx - 1)
        /\ y \in box.miny .. (box.maxy - 1)
        /\ InsideAt(pts, x, y)

TwoTriangles ==
    /\ Len(ops) = 2 /\ ops[1].op = "triangle" /\ ops[2].op = "triangle"
    /\ ops[1].color # ops[2].color
    /\ ~Panicked

\* C2: of two triangles of different colours drawn on a fresh surface, every
\* pixel covered by both at different depths shows the colour of the one with
\* the larger depth, and the same in the other draw order.
CE_C2 ==
    TwoTriangles =>
        LET fresh == [BeforeSelf EXCEPT !.buffer = pre[1].buffer,
                                        !.zbuffer = pre[1].zbuffer]
            other == triangle(triangle(fresh, ops[2].pts, ops[2].color,
                                       overflow_checks),
                              ops[1].pts, ops[1].color, overflow_checks)
        IN  \A p \in Pixels :
              LET z1 == DepthAt(ops[1].pts, p[1], p[2])
                  z2 == DepthAt(ops[2].pts, p[1], p[2])
                  cell == PixelCell(p[1], p[2])
              IN  (/\ Covers(ops[1].pts, p[1], p[2])
                   /\ Covers(ops[2].pts, p[1], p[2])
                   /\ z1 # z2)
                      => /\ cell \in DOMAIN buffer
                         /\ buffer[cell] = Pack(IF Less(z1, z2) THEN ops[2].color
                                                ELSE ops[1].color)
                         /\ other.buffer[cell] = buffer[cell]

\* Two triangles with two vertices in common.
SharedEdge(t1, t2) ==
    LET v1 == { t1[i] : i \in 1 .. 3 }
        v2 == { t2[i] : i \in 1 .. 3 }
    IN  Cardinality(v1) = 3 /\ Cardinality(v2) = 3 /\ Cardinality(v1 \cap v2) = 2

\* The pixel p lies on the edge the two triangles have in common.
OnSharedEdge(p, t1, t2) ==
    \E a \in { t1[i] : i \in 1 .. 3 } \cap { t2[i] : i \in 1 .. 3 } :
    \E b \in { t1[i] : i \in 1 .. 3 } \cap { t2[i] : i \in 1 .. 3 } :
        /\ a # b
        /\ (b.x - a.x) * (p[2] * Half - a.y) = (b.y - a.y) * (p[1] * Half - a.x)
        /\ Min(a.x, b.x) <= p[1] * Half /\ p[1] * Half <= Max(a.x, b.x)
        /\ Min(a.y, b.y) <= p[2] * Half /\ p[2] * Half <= Max(a.y, b.y)

\* A pixel on the common edge that both triangles of ops cover with the same
\* interpolated depth.
Tie(p) ==
    /\ OnSharedEdge(p, ops[1].pts, ops[2].pts)
    /\ Covers(ops[1].pts, p[1], p[2])
    /\ Covers(ops[2].pts, p[1], p[2])
    /\ DepthAt(ops[1].pts, p[1], p[2]) = DepthAt(ops[2].pts, p[1], p[2])

\* C9: a boundary pixel of two triangles sharing an edge, inside both with
\* the same depth, ends with the colour of the triangle drawn later (stated
\* for the pixels pixel() stores).
CE_C9 ==
    (TwoTriangles /\ SharedEdge(ops[1].pts, ops[2].pts)) =>
        \A p \in Pixels :
            (Tie(p) /\ PixelCell(p[1], p[2]) \in DOMAIN buffer)
                => buffer[PixelCell(p[1], p[2])] = Pack(ops[2].color)

\* C9 amended: at such a pixel only the triangle drawn first passes the
\* depth test; the later triangle changes neither the stored depth nor the
\* pixel, which keeps the colour of the triangle drawn first.
Thm_C9 ==
    (TwoTriangles /\ SharedEdge(ops[1].pts, ops[2].pts)) =>
        \A p \in Pixels :
            Tie(p) =>
                /\ zbuffer[ZIndex(p[1], p[2])] = Before.zbuffer[ZIndex(p[1], p[2])]
                /\ PixelCell(p[1], p[2]) \in DOMAIN buffer
                      => /\ buffer[PixelCell(p[1], p[2])]
                               = Before.buffer[PixelCell(p[1], p[2])]
                         /\ buffer[PixelCell(p[1], p[2])] = Pack(ops[1].color)

\* C9 witness: two triangles sharing an edge, a stored pixel on it tied in
\* depth, still showing the first colour.
Wit_C9 ==
    /\ TwoTriangles /\ SharedEdge(ops[1].pts, ops[2].pts)
    /\ \E p \in Pixels :
         /\ Tie(p)
         /\ PixelCell(p[1], p[2]) \in DOMAIN buffer
         /\ buffer[PixelCell(p[1], p[2])] = Pack(ops[1].color)

(***************************************************************************)
(* main (main.rs:14-120): the event loop and the RedrawRequested handler.  *)
(***************************************************************************)
\* main.rs:28
light_dir == [x |-> 0, y |-> 0, z |-> -1]

V3(x, y, z) == [x |-> x, y |-> y, z |-> z]
Sub(a, b) == V3(a.x - b.x, a.y - b.y, a.z - b.z)
Cross(a, b) ==
    V3(a.y * b.z - a.z * b.y, a.z * b.x - a.x * b.z, a.x * b.y - a.y * b.x)
Dot(a, b) == a.x * b.x + a.y * b.y + a.z * b.z

\* The meshes load_obj may return (main.rs:18).  Vertices are in [-1,1];
\* faces hold 0-based vertex indices, which the file may set out of range.
MeshVertices ==
    << V3(-1, -1, 0), V3(1, -1, 0), V3(0, 1, 0), V3(1, 1, 1) >>
Meshes ==
    { [vertices |-> MeshVertices, faces |-> fs] :
        fs \in { << >>,
                 \* lit, facing away, lit
                 << << 0, 1, 2 >>, << 0, 2, 1 >>, << 1, 3, 2 >> >>,
                 \* lit, then a face with the index 4 out of range
                 << << 0, 1, 2 >>, << 0, 1, 4 >> >> } }
MaxMeshes == 2
Scenes == UNION { [1 .. n -> Meshes] : n \in 1 .. MaxMeshes }

\* NonZeroU32::new(v) with the value never checked.
NonZero_any(v) == TRUE

\* main.rs:71-72: NonZeroU32::new(v) is Some iff v # 0; unwrap panics on None
NonZero(v) == v # 0

\* main.rs:86-88: mesh.vertices[face[k] as usize] panics out of range
FaceInRange(mesh, face) ==
    \A k \in 1 .. 3 : face[k] < Len(mesh.vertices)

\* main.rs:91-99: screen = (world.xy + 1) * (screen_size * 0.5), z kept;
\* in fixed point.
Project(self, v) ==
    [x |-> ((v.x + 1) * self.screen_size.x * Half) \div 2,
     y |-> ((v.y + 1) * self.screen_size.y * Half) \div 2,
     z |-> v.z]

\* main.rs:107-108: Srgb::new(i, i, i).into_format() for the intensity
\* i = dot / sqrt(nn) in (0, 1]: each channel is i * 255 rounded to nearest.
Shade(dot, nn) ==
    LET g == CHOOSE k \in 0 .. 255 :
                 /\ (2 * k - 1) * (2 * k - 1) * nn <= (510 * dot) * (510 * dot)
                 /\ k = 255
                      \/ (2 * k + 1) * (2 * k + 1) * nn > (510 * dot) * (510 * dot)
    IN  Srgb(g, g, g)

\* The body of the face loop (main.rs:85-111) for one face.  With a zero
\* normal, normalize() yields NaN and `intensity > 0.0` is false.
DrawFace(self, mesh, face, checks) ==
    IF ~FaceInRange(mesh, face) THEN [self EXCEPT !.panicked = TRUE]
    ELSE
        LET world == [k \in 1 .. 3 |-> mesh.vertices[face[k] + 1]]
            n == Cross(Sub(world[3], world[1]), Sub(world[2], world[1]))
            dot == Dot(n, light_dir)
        IN  IF dot > 0
            THEN triangle(self, [k \in 1 .. 3 |-> Project(self, world[k])],
                          Shade(dot, Dot(n, n)), checks)
            ELSE self

\* Whether the face is drawn (main.rs:106).
Lit(mesh, face) ==
    LET world == [k \in 1 .. 3 |-> mesh.vertices[face[k] + 1]]
    IN  Dot(Cross(Sub(world[3], world[1]), Sub(world[2], world[1])), light_dir) > 0

\* main.rs:79-81: the three lines of every frame
MainLines ==
    << [pos_1 |-> Pt(13, 20), pos_2 |-> Pt(80, 40), color |-> White],
       [pos_1 |-> Pt(20, 13), pos_2 |-> Pt(40, 80), color |-> Red],
       [pos_1 |-> Pt(80, 40), pos_2 |-> Pt(13, 20), color |-> Red] >>

\* The next face to draw at or after face fi of mesh mi (1-based), or
\* << 0, 0 >> when the loops of main.rs:83-84 are over.
RECURSIVE NextFace(_, _)
NextFace(mi, fi) ==
    IF mi > Len(scene) THEN << 0, 0 >>
    ELSE IF fi > Len(scene[mi].faces) THEN NextFace(mi + 1, 1)
    ELSE << mi, fi >>

Init ==
    /\ overflow_checks \in BOOLEAN
    /\ scene \in Scenes
    /\ pc = "wait"
    /\ screen_size = [x |-> 0, y |-> 0]
    /\ buffer = << >>
    /\ zbuffer = << >>
    /\ mesh_i = 0
    /\ face_i = 0
    /\ redraw = FALSE
    /\ shown = NoFrame
    /\ frames = 0
    /\ trace = << >>
    /\ ops = << >>
    /\ pre = << >>

\* Event::AboutToWait (main.rs:39-53)
AboutToWait ==
    /\ pc = "wait"
    /\ redraw' = TRUE
    /\ UNCHANGED << overflow_checks, scene, pc, screen_size, buffer, zbuffer,
                    mesh_i, face_i, shown, frames, trace, ops, pre >>

\* WindowEvent::CloseRequested (main.rs:32-38)
CloseRequested ==
    /\ pc = "wait"
    /\ pc' = "exited"
    /\ UNCHANGED << overflow_checks, scene, screen_size, buffer, zbuffer,
                    mesh_i, face_i, redraw, shown, frames, trace, ops, pre >>

\* The window sizes inner_size() may report (main.rs:64-67): small ones,
\* zero included, and one tall enough that no line of main.rs:79-81 reaches
\* above it.
TallWindow == << 2, 80 >>
WindowSizes == ((0 .. MaxDim) \X (0 .. MaxDim)) \cup {TallWindow}

\* The back buffers buffer_mut() may hand out for a w x h surface: stale
\* contents, or the frame presented last.
BackBuffers(w, h) ==
    { [i \in Cells(w, h) |-> Pack(Red)] } \cup
        (IF shown.size = [x |-> w, y |-> h] /\ w * h > 0 THEN {shown.pixels} ELSE {})

\* RedrawRequested, main.rs:64-76: the size is read, the surface resized,
\* the Drawer created over the back buffer.
RedrawBegin ==
    /\ pc = "wait" /\ redraw /\ frames < MaxFrames
    /\ frames' = frames + 1
    /\ redraw' = FALSE
    /\ \E size \in WindowSizes :
         IF NonZero(size[1]) /\ NonZero(size[2])
         THEN \E buf \in BackBuffers(size[1], size[2]) :
                /\ Store(new(buf, size[1], size[2]), "clear")
                /\ pre' = << [buffer |-> buf, zbuffer |-> zbuffer] >>
                /\ trace' = << "new" >>
         ELSE /\ pc' = "panicked"
              /\ trace' = << >>
              /\ UNCHANGED << screen_size, buffer, zbuffer, pre >>
    /\ mesh_i' = 0
    /\ face_i' = 0
    /\ UNCHANGED << overflow_checks, scene, shown, ops >>

\* main.rs:77
RedrawClear ==
    /\ pc = "clear"
    /\ Store(clear(Self), "line1")
    /\ trace' = Append(trace, "clear")
    /\ UNCHANGED << overflow_checks, scene, mesh_i, face_i, redraw, shown,
                    frames, ops, pre >>

LinePc == << "line1", "line2", "line3", "faces" >>

\* main.rs:79-81: the k-th line call; after the third the face loops start
RedrawLine ==
    \E k \in 1 .. 3 :
        /\ pc = LinePc[k]
        /\ Store(line(Self, MainLines[k].pos_1, MainLines[k].pos_2,
                      MainLines[k].color, overflow_checks),
                 LinePc[k + 1])
        /\ trace' = Append(trace, "line")
        /\ mesh_i' = IF k = 3 THEN NextFace(1, 1)[1] ELSE mesh_i
        /\ face_i' = IF k = 3 THEN NextFace(1, 1)[2] ELSE face_i
        /\ UNCHANGED << overflow_checks, scene, redraw, shown, frames, ops, pre >>

\* main.rs:83-113: one iteration of the face loops
RedrawFace ==
    /\ pc = "faces" /\ mesh_i > 0
    /\ LET mesh == scene[mesh_i]
           face == mesh.faces[face_i]
       IN  /\ Store(DrawFace(Self, mesh, face, overflow_checks), "faces")
           /\ trace' = IF ~FaceInRange(mesh, face) THEN trace
                       ELSE Append(trace, IF Lit(mesh, face) THEN "triangle"
                                          ELSE "culled")
    /\ mesh_i' = NextFace(mesh_i, face_i + 1)[1]
    /\ face_i' = NextFace(mesh_i, face_i + 1)[2]
    /\ UNCHANGED << overflow_checks, scene, redraw, shown, frames, ops, pre >>

\* main.rs:115: drawer.finish() presents the buffer; the handler returns
RedrawFinish ==
    /\ pc = "faces" /\ mesh_i = 0
    /\ shown' = finish(Self)
    /\ pc' = "wait"
    /\ trace' = Append(trace, "present")
    /\ UNCHANGED << overflow_checks, scene, screen_size, buffer, zbuffer,
                    mesh_i, face_i, redraw, frames, ops, pre >>

Next ==
    \/ AboutToWait
    \/ CloseRequested
    \/ RedrawBegin
    \/ RedrawClear
    \/ RedrawLine
    \/ RedrawFace
    \/ RedrawFinish

Spec == Init /\ [][Next]_vars

(***************************************************************************)
(* The redraw pass.                                                        *)
(***************************************************************************)
Presented == trace # << >> /\ trace[Len(trace)] = "present"

Faces ==
    UNION { { << mi, fi >> : fi \in 1 .. Len(scene[mi].faces) } :
            mi \in 1 .. Len(scene) }

SceneValid ==
    \A f \in Faces : FaceInRange(scene[f[1]], scene[f[1]].faces[f[2]])

\* C5: a pass with a fatal precondition error (a zero window width or
\* height, a face index out of range) is aborted and never presents, so the
\* presenter is only ever handed the buffer of a pass that cleared it and
\* went through every face.
Thm_C5 ==
    /\ Panicked => ~Presented
    /\ Presented =>
          /\ screen_size.x > 0 /\ screen_size.y > 0
          /\ SceneValid
          /\ Len(trace) = 6 + Cardinality(Faces)
          /\ shown = finish(Self)
    /\ shown # NoFrame =>
          /\ shown.size.x > 0 /\ shown.size.y > 0
          /\ SceneValid

\* C5 witness: a pass that drew a triangle and then panicked on a face with
\* an index out of range; nothing was ever presented.
Wit_C5 ==
    /\ Panicked
    /\ ~SceneValid
    /\ \E i \in 1 .. Len(trace) : trace[i] = "triangle"
    /\ ~AllZero(buffer)
    /\ shown = NoFrame

\* The faces of the scene drawn in order from face fi of mesh mi on.
RECURSIVE RenderFaces(_, _, _)
RenderFaces(self, mi, fi) ==
    IF NextFace(mi, fi) = << 0, 0 >> \/ self.panicked THEN self
    ELSE LET at == NextFace(mi, fi)
         IN  RenderFaces(DrawFace(self, scene[at[1]], scene[at[1]].faces[at[2]],
                                  overflow_checks),
                         at[1], at[2] + 1)

RECURSIVE RenderLines(_, _)
RenderLines(self, k) ==
    IF k > 3 THEN self
    ELSE RenderLines(line(self, MainLines[k].pos_1, MainLines[k].pos_2,
                          MainLines[k].color, overflow_checks), k + 1)

\* A whole pass over a w x h surface that holds nothing of an earlier frame.
Render(w, h) ==
    RenderFaces(RenderLines(clear(new([i \in Cells(w, h) |-> 0], w, h)), 1), 1, 1)

\* C6: in every pass the surface is created with all depths at -infinity
\* and cleared before the first draw, draws come before the present, the
\* present comes once, last; so the frame presented is the one the pass
\* would produce on a surface no earlier frame ever touched.
Thm_C6 ==
    /\ \A i \in 1 .. Len(trace) :
          /\ trace[i] = "new" <=> i = 1
          /\ trace[i] = "clear" <=> i = 2
          /\ trace[i] = "present" => (i = Len(trace) /\ i > 2)
    /\ pc = "line1" =>
          /\ DOMAIN buffer = Cells(Width, Height)
          /\ AllZero(buffer)
          /\ zbuffer = [i \in Cells(Width, Height) |-> NEG_INFINITY]
    /\ (pc \in {"wait", "exited"} /\ frames > 0) => Presented
    /\ (Presented /\ pc = "wait" /\ ~redraw)
          => shown = finish(Render(Width, Height))

\* C6 witness: a second pass, started on a back buffer still holding
\* pixels, that drew a triangle and presented.
Wit_C6 ==
    /\ frames = 2
    /\ Presented
    /\ ~AllZero(pre[1].buffer)
    /\ \E i \in DOMAIN pre[1].zbuffer : pre[1].zbuffer[i] # NEG_INFINITY
    /\ \E i \in 1 .. Len(trace) : trace[i] = "triangle"
    /\ ~AllZero(shown.pixels)

====
